---- MODULE Spec2Model ----
(***************************************************************************)
(* State-machine model of the dao-governance Anchor program                *)
(* (examples/dao-governance/programs/dao-governance/src/lib.rs).           *)
(*                                                                         *)
(* Every instruction handler is an operator over a working copy of the     *)
(* account store; it returns the error code and the working copy at the    *)
(* point of return.  The transaction boundary (Commit) keeps the working   *)
(* copy only when the handler returned Ok.                                 *)
(***************************************************************************)
EXTENDS Integers, FiniteSets, Sequences, TLC

\* ----- bounds of the model ------------------------------------------------
MaxTime == 4
MaxLamports == 1
LamportBits == 6

\* ----- universes ----------------------------------------------------------
Wallets == {"w1", "w2"}
Daos == {"d1", "d2"}
Proposals == {"p1", "p2"}
Accts == {"a1", "a2"}
Delegations == {"g1"}
VoteTypes == {"Yes", "No", "Abstain"}
NoKey == "-"
\* Clock values at which the scenarios register DAOs, members and
\* delegations, and at which they create proposals.
SetupTimes == {0}
ProposeTimes == {0}

\* ----- Option<T> -----------------------------------------------------------
None == [some |-> FALSE, v |-> 0]
Some(x) == [some |-> TRUE, v |-> x]

\* ----- ProposalType (tagged action payload) --------------------------------
PType(tag, recipient, amount, vp, td, q, a) ==
    [tag |-> tag, recipient |-> recipient, amount |-> amount,
     voting_period |-> vp, timelock_delay |-> td,
     quorum_threshold |-> q, approval_threshold |-> a]


\* ----- account records -----------------------------------------------------
\* `exists` tells an initialised account from an unallocated address.  The
\* free-text fields (name, title, description, comment, instruction data) are
\* stored and never read; they are not part of the records.
NullDao ==
    [exists |-> FALSE, authority |-> NoKey, treasury |-> NoKey,
     total_members |-> 0, total_proposals |-> 0,
     voting_period |-> 0, timelock_delay |-> 0,
     quorum_threshold |-> 0, approval_threshold |-> 0,
     is_active |-> FALSE, created_at |-> 0]

NullMember ==
    [exists |-> FALSE, dao |-> NoKey, wallet |-> NoKey, voting_power |-> 0,
     delegate |-> NoKey, proposals_created |-> 0, votes_cast |-> 0,
     joined_at |-> 0, is_active |-> FALSE]

NullProposal ==
    [exists |-> FALSE, id |-> 0, dao |-> NoKey, proposer |-> NoKey,
     proposal_type |-> PType("Custom", NoKey, 0, None, None, None, None),
     yes_votes |-> 0, no_votes |-> 0, abstain_votes |-> 0, total_votes |-> 0,
     start_time |-> 0, end_time |-> 0,
     queued_at |-> None, executed_at |-> None, cancelled_at |-> None,
     status |-> "Active"]

NullVote ==
    [exists |-> FALSE, proposal |-> NoKey, voter |-> NoKey, vote_type |-> "Yes",
     voting_power |-> 0, voted_at |-> 0]

NullDelegation ==
    [exists |-> FALSE, delegator |-> NoKey, delegatee |-> NoKey, dao |-> NoKey,
     delegated_power |-> 0, created_at |-> 0]

\* Program-derived addresses: the seeds are the key.
MemberPda(d, w) == <<d, w>>
VotePda(p, w) == <<p, w>>

VARIABLES store, now, build, last, applied

vars == <<store, now, build, last, applied>>

EmptyStore ==
    [dao |-> [d \in Daos |-> NullDao],
     member |-> [k \in Daos \X Wallets |-> NullMember],
     proposal |-> [p \in Proposals |-> NullProposal],
     vote |-> [k \in Proposals \X Wallets |-> NullVote],
     delegation |-> [g \in Delegations |-> NullDelegation],
     lamports |-> [a \in Accts |-> 0]]

\* Result of a handler: error code and working copy at the point of return.
Res(err, st) == [err |-> err, st |-> st]

\* The transaction boundary: an instruction that returns Err (or panics) is
\* rolled back as a whole; one that returns Ok(()) is committed.
CommitLoose(old, res) == res.st
Commit(old, res) == IF res.err = "Ok" THEN res.st ELSE old

\* ----- account validation helpers ------------------------------------------
\* `init`: allocates the account, zero-initialised, in the working copy.
InitDao(st, d) == [st EXCEPT !.dao[d] = [NullDao EXCEPT !.exists = TRUE]]
InitMember(st, k) == [st EXCEPT !.member[k] = [NullMember EXCEPT !.exists = TRUE]]
InitProposal(st, p) == [st EXCEPT !.proposal[p] = [NullProposal EXCEPT !.exists = TRUE]]
InitVote(st, k) == [st EXCEPT !.vote[k] = [NullVote EXCEPT !.exists = TRUE]]
InitDelegation(st, g) ==
    [st EXCEPT !.delegation[g] = [NullDelegation EXCEPT !.exists = TRUE]]

\* ----- create_dao ----------------------------------------------------------
ValidBpNoCap(x) == x > 0
ValidBp(x) == x > 0 /\ x <= 10000

create_dao(st, d, authority, treasury, vp, td, quorum, approval, clk) ==
    IF st.dao[d].exists THEN Res("AccountAlreadyInUse", st)
    ELSE LET st1 == InitDao(st, d) IN
    IF ~(vp > 0) THEN Res("InvalidVotingPeriod", st1)
    ELSE IF ~(td >= 0) THEN Res("InvalidTimelock", st1)
    ELSE IF ~ValidBp(quorum) THEN Res("InvalidQuorum", st1)
    ELSE IF ~ValidBp(approval) THEN Res("InvalidThreshold", st1)
    ELSE Res("Ok", [st1 EXCEPT !.dao[d] =
            [exists |-> TRUE, authority |-> authority, treasury |-> treasury,
             total_members |-> 0, total_proposals |-> 0,
             voting_period |-> vp, timelock_delay |-> td,
             quorum_threshold |-> quorum,
             approval_threshold |-> approval,
             is_active |-> TRUE, created_at |-> clk]])

\* ----- add_member ----------------------------------------------------------
\* `init` of the member record at its program-derived address.
MemberInUseNever(st, k) == FALSE
MemberInUse(st, k) == st.member[k].exists

\* `require!(voting_power > 0, GovernanceError::InvalidVotingPower)`
PowerGivenAny(voting_power) == TRUE
PowerGiven(voting_power) == voting_power > 0

add_member(st, d, authority, new_member, voting_power, clk) ==
    IF ~st.dao[d].exists THEN Res("AccountNotInitialized", st)
    ELSE IF MemberInUse(st, MemberPda(d, new_member))
    THEN Res("AccountAlreadyInUse", st)
    ELSE LET st1 == InitMember(st, MemberPda(d, new_member)) IN
    IF ~st1.dao[d].is_active THEN Res("DAONotActive", st1)
    ELSE IF ~PowerGiven(voting_power) THEN Res("InvalidVotingPower", st1)
    ELSE Res("Ok", [st1 EXCEPT
            !.member[MemberPda(d, new_member)] =
                [exists |-> TRUE, dao |-> d, wallet |-> new_member,
                 voting_power |-> voting_power, delegate |-> NoKey,
                 proposals_created |-> 0, votes_cast |-> 0,
                 joined_at |-> clk, is_active |-> TRUE],
            !.dao[d].total_members = @ + 1])

\* ----- create_proposal -----------------------------------------------------
\* `require!(member.voting_power > 0, ...)`
ProposerPowerAny(voting_power) == TRUE
ProposerPower(voting_power) == voting_power > 0

\* `dao.total_proposals += 1`
CounterKept(n) == n
CounterBumped(n) == n + 1

\* `proposal.end_time = clock.unix_timestamp + dao.voting_period`
EndTimeInitial(clk, voting_period) == clk + 1
EndTime(clk, voting_period) == clk + voting_period

create_proposal(st, d, p, proposer, proposal_type, clk) ==
    IF ~st.dao[d].exists THEN Res("AccountNotInitialized", st)
    ELSE IF st.proposal[p].exists THEN Res("AccountAlreadyInUse", st)
    ELSE LET st1 == InitProposal(st, p) IN
    IF ~st1.member[MemberPda(d, proposer)].exists
    THEN Res("AccountNotInitialized", st1)
    ELSE LET dao == st1.dao[d]
             member == st1.member[MemberPda(d, proposer)] IN
    IF ~dao.is_active THEN Res("DAONotActive", st1)
    ELSE IF ~member.is_active THEN Res("MemberNotActive", st1)
    ELSE IF ~ProposerPower(member.voting_power)
    THEN Res("InsufficientVotingPower", st1)
    ELSE LET proposal_id == dao.total_proposals IN
         Res("Ok", [st1 EXCEPT
            !.dao[d].total_proposals = CounterBumped(@),
            !.proposal[p] =
                [exists |-> TRUE, id |-> proposal_id, dao |-> d,
                 proposer |-> proposer, proposal_type |-> proposal_type,
                 yes_votes |-> 0, no_votes |-> 0, abstain_votes |-> 0,
                 total_votes |-> 0,
                 start_time |-> clk, end_time |-> EndTime(clk, dao.voting_period),
                 queued_at |-> None, executed_at |-> None,
                 cancelled_at |-> None, status |-> "Active"]])

\* ----- cast_vote -----------------------------------------------------------
VotingOpenStrict(clk, end_time) == clk < end_time
VotingOpen(clk, end_time) == clk <= end_time

\* `init` of the vote record at its program-derived address.
VoteRecordInUseNever(st, p, voter) == FALSE
VoteRecordInUse(st, p, voter) == st.vote[VotePda(p, voter)].exists

\* The power a vote is credited with.
EffectivePowerMoved(member) ==
    IF member.delegate = NoKey THEN member.voting_power ELSE 0
EffectivePower(member) == member.voting_power

\* `match vote_type`: one arm per tally.
CreditAny(tally, arm, vote_type, voting_power) == tally + voting_power
Credit(tally, arm, vote_type, voting_power) ==
    IF vote_type = arm THEN tally + voting_power ELSE tally

\* `let member = &ctx.accounts.member;`: the member account is read, not
\* written.
MemberCounted(member) == [member EXCEPT !.votes_cast = @ + 1]
MemberRead(member) == member

\* `proposal.total_votes += voting_power`
TotalReplaced(total, voting_power) == voting_power - total
TotalAfter(total, voting_power) == total + voting_power

cast_vote(st, p, voter, vote_type, clk) ==
    IF ~st.proposal[p].exists THEN Res("AccountNotInitialized", st)
    ELSE IF VoteRecordInUse(st, p, voter) THEN Res("AccountAlreadyInUse", st)
    ELSE LET st1 == InitVote(st, VotePda(p, voter))
             proposal == st1.proposal[p] IN
    IF ~st1.member[MemberPda(proposal.dao, voter)].exists
    THEN Res("AccountNotInitialized", st1)
    ELSE LET member == st1.member[MemberPda(proposal.dao, voter)] IN
    IF ~(proposal.status = "Active") THEN Res("ProposalNotActive", st1)
    ELSE IF ~VotingOpen(clk, proposal.end_time) THEN Res("VotingPeriodEnded", st1)
    ELSE IF ~member.is_active THEN Res("MemberNotActive", st1)
    ELSE LET voting_power == EffectivePower(member) IN
    IF ~(voting_power > 0) THEN Res("InsufficientVotingPower", st1)
    ELSE Res("Ok", [st1 EXCEPT
            !.vote[VotePda(p, voter)] =
                [exists |-> TRUE, proposal |-> p, voter |-> voter,
                 vote_type |-> vote_type, voting_power |-> voting_power,
                 voted_at |-> clk],
            !.member[MemberPda(proposal.dao, voter)] = MemberRead(@),
            !.proposal[p].yes_votes = Credit(@, "Yes", vote_type, voting_power),
            !.proposal[p].no_votes = Credit(@, "No", vote_type, voting_power),
            !.proposal[p].abstain_votes =
                Credit(@, "Abstain", vote_type, voting_power),
            !.proposal[p].total_votes = TotalAfter(@, voting_power)])

\* ----- queue_proposal ------------------------------------------------------
PowerPerMember == 1000
BpScale == 10000

QueueStatusOk(status) == status = "Active"
VotingEndedLoose(clk, end_time) == clk >= end_time
VotingEnded(clk, end_time) == clk > end_time
ParticipationRate(total_votes, total_voting_power) ==
    (total_votes * BpScale) \div total_voting_power
ApprovalRate(yes_votes, total_votes) ==
    IF total_votes > 0 THEN (yes_votes * BpScale) \div total_votes ELSE 0
QuorumReached(participation_rate, quorum_threshold) ==
    participation_rate >= quorum_threshold
Approved(approval_rate, approval_threshold) ==
    approval_rate >= approval_threshold

queue_proposal(st, d, p, clk) ==
    IF ~st.dao[d].exists \/ ~st.proposal[p].exists
    THEN Res("AccountNotInitialized", st)
    ELSE LET dao == st.dao[d]
             proposal == st.proposal[p] IN
    IF ~QueueStatusOk(proposal.status) THEN Res("ProposalNotActive", st)
    ELSE IF ~VotingEnded(clk, proposal.end_time) THEN Res("VotingPeriodNotEnded", st)
    ELSE LET total_voting_power == dao.total_members * PowerPerMember IN
    IF total_voting_power = 0 THEN Res("PanicDivideByZero", st)
    ELSE LET participation_rate ==
                 ParticipationRate(proposal.total_votes, total_voting_power) IN
    IF ~QuorumReached(participation_rate, dao.quorum_threshold)
    THEN Res("QuorumNotReached", st)
    ELSE LET approval_rate ==
                 ApprovalRate(proposal.yes_votes, proposal.total_votes) IN
    IF Approved(approval_rate, dao.approval_threshold)
    THEN Res("Ok", [st EXCEPT !.proposal[p].status = "Succeeded",
                              !.proposal[p].queued_at = Some(clk)])
    ELSE Res("Ok", [st EXCEPT !.proposal[p].status = "Defeated"])

\* ----- execute_proposal ----------------------------------------------------
LamportModulus == 2 ^ LamportBits

ExecuteStatusOkLoose(status) == status \in {"Succeeded", "Executed"}
ExecuteStatusOk(status) == status = "Succeeded"
TimelockExpired(clk, execution_time) == clk >= execution_time

\* `-=` / `+=` on the lamport balance: with overflow checks the statement
\* panics on overflow, without them it wraps.
SubLamports(bld, x, amount) ==
    IF amount > x
    THEN IF bld = "checked" THEN [panic |-> TRUE, v |-> x]
         ELSE [panic |-> FALSE, v |-> (x - amount) % LamportModulus]
    ELSE [panic |-> FALSE, v |-> x - amount]
AddLamports(bld, x, amount) ==
    IF x + amount >= LamportModulus
    THEN IF bld = "checked" THEN [panic |-> TRUE, v |-> x]
         ELSE [panic |-> FALSE, v |-> (x + amount) % LamportModulus]
    ELSE [panic |-> FALSE, v |-> x + amount]

ApplyOpt(opt, old) == IF opt.some THEN opt.v ELSE old
ApplyConfigChange(dao, t) ==
    [dao EXCEPT !.voting_period = ApplyOpt(t.voting_period, @),
                !.timelock_delay = ApplyOpt(t.timelock_delay, @),
                !.quorum_threshold = ApplyOpt(t.quorum_threshold, @),
                !.approval_threshold = ApplyOpt(t.approval_threshold, @)]

\* The AddMember, RemoveMember and Custom arms only write a log line.
LogOnlyCounts(st, d, t) ==
    IF t.tag = "RemoveMember" THEN [st EXCEPT !.dao[d].total_members = @ - 1]
    ELSE st
LogOnly(st, d, t) == st

MarkExecuted(st, p, clk) ==
    [st EXCEPT !.proposal[p].status = "Executed",
               !.proposal[p].executed_at = Some(clk)]

execute_proposal(st, d, p, treasury_account, recipient_account, clk, bld) ==
    IF ~st.dao[d].exists \/ ~st.proposal[p].exists
    THEN Res("AccountNotInitialized", st)
    ELSE LET dao == st.dao[d]
             proposal == st.proposal[p] IN
    IF ~ExecuteStatusOk(proposal.status) THEN Res("ProposalNotQueued", st)
    ELSE IF ~proposal.queued_at.some THEN Res("ProposalNotQueued", st)
    ELSE LET queued_at == proposal.queued_at.v
             execution_time == queued_at + dao.timelock_delay
             t == proposal.proposal_type IN
    IF ~TimelockExpired(clk, execution_time) THEN Res("TimelockNotExpired", st)
    ELSE IF t.tag = "Transfer"
    THEN LET sub == SubLamports(bld, st.lamports[treasury_account], t.amount) IN
         IF sub.panic THEN Res("PanicArithmeticOverflow", st)
         ELSE LET st1 == [st EXCEPT !.lamports[treasury_account] = sub.v]
                  add == AddLamports(bld, st1.lamports[recipient_account], t.amount) IN
         IF add.panic THEN Res("PanicArithmeticOverflow", st1)
         ELSE Res("Ok", MarkExecuted(
                  [st1 EXCEPT !.lamports[recipient_account] = add.v], p, clk))
    ELSE IF t.tag = "ConfigChange"
    THEN Res("Ok", MarkExecuted(
             [st EXCEPT !.dao[d] = ApplyConfigChange(dao, t)], p, clk))
    ELSE Res("Ok", MarkExecuted(LogOnly(st, d, t), p, clk))

\* Lamports are conserved by every instruction: the runtime fails an
\* instruction whose accounts' balances do not sum to what they did before.
RECURSIVE SumOver(_, _)
SumOver(f, S) ==
    IF S = {} THEN 0
    ELSE LET x == CHOOSE y \in S : TRUE IN f[x] + SumOver(f, S \ {x})
TotalLamports(st) == SumOver(st.lamports, Accts)

Balanced(old, res) ==
    IF res.err = "Ok" /\ TotalLamports(res.st) # TotalLamports(old)
    THEN Res("UnbalancedInstruction", res.st)
    ELSE res

\* ----- cancel_proposal -----------------------------------------------------
CancelStatusOkLoose(status) == status \in {"Active", "Succeeded", "Executed"}
CancelStatusOk(status) == status \in {"Active", "Succeeded"}
CancelAuthorized(proposer, authority, canceller) ==
    LET is_proposer == proposer = canceller
        is_authority == authority = canceller
    IN is_proposer \/ is_authority

cancel_proposal(st, d, p, canceller, clk) ==
    IF ~st.dao[d].exists \/ ~st.proposal[p].exists
    THEN Res("AccountNotInitialized", st)
    ELSE LET proposal == st.proposal[p] IN
    IF ~CancelStatusOk(proposal.status) THEN Res("CannotCancelProposal", st)
    ELSE IF ~CancelAuthorized(proposal.proposer, st.dao[d].authority, canceller)
    THEN Res("Unauthorized", st)
    ELSE Res("Ok", [st EXCEPT !.proposal[p].status = "Cancelled",
                              !.proposal[p].cancelled_at = Some(clk)])

\* ----- delegate_vote / revoke_delegation -----------------------------------
delegate_vote(st, d, m, g, delegator, delegatee_wallet, clk) ==
    IF ~st.dao[d].exists \/ ~st.member[m].exists
    THEN Res("AccountNotInitialized", st)
    ELSE IF st.delegation[g].exists THEN Res("AccountAlreadyInUse", st)
    ELSE LET st1 == InitDelegation(st, g) IN
    IF ~st1.member[MemberPda(d, delegatee_wallet)].exists
    THEN Res("AccountNotInitialized", st1)
    ELSE LET member == st1.member[m]
             delegatee == st1.member[MemberPda(d, delegatee_wallet)] IN
    IF ~member.is_active THEN Res("MemberNotActive", st1)
    ELSE IF ~delegatee.is_active THEN Res("DelegateeNotActive", st1)
    ELSE Res("Ok", [st1 EXCEPT
            !.member[m].delegate = delegatee_wallet,
            !.delegation[g] =
                [exists |-> TRUE, delegator |-> delegator,
                 delegatee |-> delegatee_wallet, dao |-> d,
                 delegated_power |-> member.voting_power,
                 created_at |-> clk]])

\* `member.delegate.is_some()`
HasDelegateAlways(member) == TRUE
HasDelegate(member) == member.delegate # NoKey

revoke_delegation(st, m, delegator) ==
    IF ~st.member[m].exists THEN Res("AccountNotInitialized", st)
    ELSE IF ~HasDelegate(st.member[m]) THEN Res("NoDelegationToRevoke", st)
    ELSE Res("Ok", [st EXCEPT !.member[m].delegate = NoKey])

\* ----- the program as a state machine --------------------------------------
Builds == {"checked", "wrapping"}

\* Arguments of create_dao: per DAO account one accepted configuration, and
\* one rejected configuration for each `require!`.
DaoArgs(d, authority, treasury, vp, td, q, a) ==
    [d |-> d, authority |-> authority, treasury |-> treasury,
     vp |-> vp, td |-> td, q |-> q, a |-> a]
DaoInputs ==
    { DaoArgs("d1", "w1", "a1", 1, 1, 10000, 6000),
      DaoArgs("d2", "w2", "a2", 1, 0, 5000, 10000),
      DaoArgs("d1", "w1", "a1", 0, 1, 10000, 6000),
      DaoArgs("d1", "w1", "a1", 1, -1, 10000, 6000),
      DaoArgs("d2", "w2", "a2", 1, 0, 0, 10000),
      DaoArgs("d2", "w2", "a2", 1, 0, 10001, 10000),
      DaoArgs("d1", "w1", "a1", 1, 1, 10000, 0),
      DaoArgs("d1", "w1", "a1", 1, 1, 10000, 10001) }
PowerInputs == {0, 1000}
UnequalPowers == {1000, 3000}

ConfigTypes ==
    { PType("ConfigChange", NoKey, 0, None, Some(0), Some(0), None),
      PType("ConfigChange", NoKey, 0, Some(2), None, None, Some(10001)) }
LogTypes ==
    { PType("AddMember", NoKey, 0, None, None, None, None),
      PType("RemoveMember", NoKey, 0, None, None, None, None),
      PType("Custom", NoKey, 0, None, None, None, None) }
LifeTypes ==
    ConfigTypes \cup { PType("Custom", NoKey, 0, None, None, None, None) }
PlainTypes ==
    { PType("Custom", NoKey, 0, None, None, None, None) }
TransferTypes ==
    { PType("Transfer", "a2", 1, None, None, None, None) }

\* The last instruction that committed, with its accounts.  An instruction
\* that fails commits nothing and leaves no trace.
Call(op, d, p, w, m, from, to) ==
    [op |-> op, d |-> d, p |-> p, w |-> w, m |-> m, from |-> from, to |-> to]
NoMember == <<NoKey, NoKey>>

InitWith(builds) ==
    /\ store = EmptyStore
    /\ now = 0
    /\ build \in builds
    /\ last = Call("init", NoKey, NoKey, NoKey, NoMember, NoKey, NoKey)
    /\ applied = [p \in Proposals |-> 0]

Step(res, call) ==
    /\ store' = Commit(store, res)
    /\ last' = IF res.err = "Ok" THEN call ELSE last
    /\ UNCHANGED <<now, build>>

CreateDao(IS) ==
    \E i \in IS :
        LET res == create_dao(store, i.d, i.authority, i.treasury,
                              i.vp, i.td, i.q, i.a, now) IN
        /\ now \in SetupTimes
        /\ Step(res, Call("create_dao", i.d, NoKey, i.authority, NoMember,
                          i.treasury, NoKey))
        /\ UNCHANGED applied

AddMember(DS, VS) ==
    \E d \in DS, authority \in Wallets, new_member \in Wallets,
       voting_power \in VS :
        LET res == add_member(store, d, authority, new_member, voting_power, now) IN
        /\ now \in SetupTimes
        /\ Step(res, Call("add_member", d, NoKey, authority,
                          MemberPda(d, new_member), NoKey, NoKey))
        /\ UNCHANGED applied

CreateProposal(DS, PS, TS, CS) ==
    \E d \in DS, p \in PS, proposer \in Wallets, t \in TS :
        LET res == create_proposal(store, d, p, proposer, t, now) IN
        /\ now \in CS
        /\ Step(res, Call("create_proposal", d, p, proposer, NoMember,
                          NoKey, NoKey))
        /\ UNCHANGED applied

CastVote(PS, VS) ==
    \E p \in PS, voter \in Wallets, vote_type \in VS :
        LET res == cast_vote(store, p, voter, vote_type, now) IN
        /\ Step(res, Call("cast_vote", NoKey, p, voter, NoMember, NoKey, NoKey))
        /\ UNCHANGED applied

QueueProposal(DS, PS) ==
    \E d \in DS, p \in PS :
        LET res == queue_proposal(store, d, p, now) IN
        /\ Step(res, Call("queue_proposal", d, p, NoKey, NoMember, NoKey, NoKey))
        /\ UNCHANGED applied

ExecuteProposal(DS, PS, AS) ==
    \E d \in DS, p \in PS, from \in AS, to \in AS :
        LET res == Balanced(store,
                       execute_proposal(store, d, p, from, to, now, build)) IN
        /\ Step(res, Call("execute_proposal", d, p, NoKey, NoMember, from, to))
        /\ applied' = IF res.err = "Ok" THEN [applied EXCEPT ![p] = @ + 1]
                      ELSE applied

CancelProposal(DS, PS) ==
    \E d \in DS, p \in PS, canceller \in Wallets :
        LET res == cancel_proposal(store, d, p, canceller, now) IN
        /\ Step(res, Call("cancel_proposal", d, p, canceller, NoMember,
                          NoKey, NoKey))
        /\ UNCHANGED applied

DelegateVote(DS, GS) ==
    \E d \in DS, m \in DS \X Wallets, g \in GS,
       delegator \in Wallets, delegatee_wallet \in Wallets :
        LET res == delegate_vote(store, d, m, g, delegator, delegatee_wallet, now) IN
        /\ now \in SetupTimes
        /\ Step(res, Call("delegate_vote", d, NoKey, delegator, m, NoKey, NoKey))
        /\ UNCHANGED applied

RevokeDelegation(DS) ==
    \E m \in DS \X Wallets, delegator \in Wallets :
        LET res == revoke_delegation(store, m, delegator) IN
        /\ now \in SetupTimes
        /\ Step(res, Call("revoke_delegation", NoKey, NoKey, delegator, m,
                          NoKey, NoKey))
        /\ UNCHANGED applied

\* The clock advances between instructions.
Tick ==
    /\ now < MaxTime
    /\ now' = now + 1
    /\ last' = Call("tick", NoKey, NoKey, NoKey, NoMember, NoKey, NoKey)
    /\ UNCHANGED <<store, build, applied>>

\* Anyone may deposit lamports into an account.
Fund ==
    \E a \in Accts :
        /\ TotalLamports(store) < MaxLamports
        /\ store' = [store EXCEPT !.lamports[a] = @ + 1]
        /\ last' = Call("fund", NoKey, NoKey, NoKey, NoMember, NoKey, a)
        /\ UNCHANGED <<now, build, applied>>

\* Governance life cycle: both DAOs, one proposal account, every action kind
\* that moves no funds.
Init == InitWith({"checked"})

Next ==
    \/ CreateDao(DaoInputs)
    \/ AddMember(Daos, PowerInputs)
    \/ CreateProposal(Daos, {"p1"}, LifeTypes, ProposeTimes)
    \/ CastVote({"p1"}, VoteTypes)
    \/ QueueProposal(Daos, {"p1"})
    \/ ExecuteProposal(Daos, {"p1"}, {"a1"})
    \/ CancelProposal(Daos, {"p1"})
    \/ Tick

Spec == Init /\ [][Next]_vars

\* Funds: every instruction on one DAO, one proposal account, Transfer
\* proposals, both builds of the lamport arithmetic.
FundsDaos == {"d1"}
FundsProposals == {"p1"}
FundsInputs == {j \in DaoInputs : j.d \in FundsDaos}
FundsDelegations == Delegations
InitFunds == InitWith(Builds)

NextFunds ==
    \/ CreateDao(FundsInputs)
    \/ AddMember(FundsDaos, PowerInputs)
    \/ CreateProposal(FundsDaos, FundsProposals, TransferTypes, ProposeTimes)
    \/ CastVote(FundsProposals, {"Yes"})
    \/ QueueProposal(FundsDaos, FundsProposals)
    \/ ExecuteProposal(FundsDaos, FundsProposals, Accts)
    \/ CancelProposal(FundsDaos, FundsProposals)
    \/ DelegateVote(FundsDaos, FundsDelegations)
    \/ RevokeDelegation(FundsDaos)
    \/ Tick
    \/ Fund

SpecFunds == InitFunds /\ [][NextFunds]_vars

\* Delegation: one DAO whose members hold different powers, delegation and
\* voting interleaved, one proposal account.
InitDeleg == InitWith({"checked"})

NextDeleg ==
    \/ CreateDao(FundsInputs)
    \/ AddMember(FundsDaos, UnequalPowers)
    \/ CreateProposal(FundsDaos, FundsProposals, PlainTypes, ProposeTimes)
    \/ CastVote(FundsProposals, VoteTypes)
    \/ QueueProposal(FundsDaos, FundsProposals)
    \/ DelegateVote(FundsDaos, FundsDelegations)
    \/ RevokeDelegation(FundsDaos)
    \/ Tick

SpecDeleg == InitDeleg /\ [][NextDeleg]_vars

\* Proposal ids: two DAOs with different voting periods, both proposal
\* accounts, proposals created at any clock value.
IdsInputs ==
    { DaoArgs("d1", "w1", "a1", 1, 0, 10000, 6000),
      DaoArgs("d2", "w2", "a2", 2, 0, 10000, 10000) }
AnyTimes == 0..MaxTime
InitIds == InitWith({"checked"})

NextIds ==
    \/ CreateDao(IdsInputs)
    \/ AddMember(Daos, {1000})
    \/ CreateProposal(Daos, Proposals, PlainTypes, AnyTimes)
    \/ Tick

SpecIds == InitIds /\ [][NextIds]_vars

\* Member registry: both DAOs, delegation and revocation with every member
\* record, all within one clock value.
InitRegistry == InitWith({"checked"})

NextRegistry ==
    \/ CreateDao(IdsInputs)
    \/ AddMember(Daos, {1000})
    \/ DelegateVote(Daos, Delegations)
    \/ RevokeDelegation(Daos)

SpecRegistry == InitRegistry /\ [][NextRegistry]_vars

\* Membership and custom actions: one DAO, one proposal account, proposals
\* whose action names a member (AddMember{member, voting_power} and
\* RemoveMember{member} carry the key in `recipient` and the power in
\* `amount`) or a custom instruction, run through vote, queue and execute.
MembershipTypes ==
    { PType("AddMember", "w2", 1000, None, None, None, None),
      PType("RemoveMember", "w1", 0, None, None, None, None),
      PType("Custom", NoKey, 0, None, None, None, None) }
InitLog == InitWith({"checked"})

NextLog ==
    \/ CreateDao(IdsInputs)
    \/ AddMember(FundsDaos, {1000})
    \/ CreateProposal(FundsDaos, FundsProposals, MembershipTypes, ProposeTimes)
    \/ CastVote(FundsProposals, VoteTypes)
    \/ QueueProposal(Daos, FundsProposals)
    \/ ExecuteProposal(Daos, FundsProposals, {"a1"})
    \/ CancelProposal(FundsDaos, FundsProposals)
    \/ Tick

SpecLog == InitLog /\ [][NextLog]_vars

\* Configuration changes: one DAO, one proposal account, ConfigChange
\* proposals that carry a non-positive voting period or a negative timelock.
UncheckedConfigTypes ==
    { PType("ConfigChange", NoKey, 0, Some(0), None, None, None),
      PType("ConfigChange", NoKey, 0, None, Some(-1), None, None) }
InitConfig == InitWith({"checked"})

NextConfig ==
    \/ CreateDao(FundsInputs)
    \/ AddMember(FundsDaos, {1000})
    \/ CreateProposal(FundsDaos, FundsProposals, UncheckedConfigTypes, ProposeTimes)
    \/ CastVote(FundsProposals, VoteTypes)
    \/ QueueProposal(FundsDaos, FundsProposals)
    \/ ExecuteProposal(FundsDaos, FundsProposals, {"a1"})
    \/ Tick

SpecConfig == InitConfig /\ [][NextConfig]_vars

\* Timelock changes: a DAO with timelock 1 and one with timelock 0, both
\* proposal accounts, a ConfigChange that shortens the timelock next to a
\* Custom proposal, queue and execute with either DAO account.
TimelockInputs ==
    { DaoArgs("d1", "w1", "a1", 1, 1, 10000, 6000),
      DaoArgs("d2", "w2", "a2", 1, 0, 5000, 10000) }
TimelockTypes ==
    { PType("ConfigChange", NoKey, 0, None, Some(0), None, None),
      PType("Custom", NoKey, 0, None, None, None, None) }
InitTimelock == InitWith({"checked"})

NextTimelock ==
    \/ CreateDao(TimelockInputs)
    \/ AddMember(FundsDaos, {1000})
    \/ CreateProposal(FundsDaos, Proposals, TimelockTypes, ProposeTimes)
    \/ CastVote(Proposals, {"Yes"})
    \/ QueueProposal(FundsDaos, Proposals)
    \/ ExecuteProposal(Daos, Proposals, {"a1"})
    \/ Tick

SpecTimelock == InitTimelock /\ [][NextTimelock]_vars

\* Voting-period changes: one DAO whose voting period a ConfigChange
\* lengthens from 1 to 2, proposals created before and after the change.
PeriodTypes ==
    { PType("ConfigChange", NoKey, 0, Some(2), None, None, None) }
PeriodTimes == {0, 3}
InitPeriod == InitWith({"checked"})

NextPeriod ==
    \/ CreateDao(FundsInputs)
    \/ AddMember(FundsDaos, {1000})
    \/ CreateProposal(FundsDaos, Proposals, PeriodTypes, PeriodTimes)
    \/ CastVote(Proposals, {"Yes"})
    \/ QueueProposal(FundsDaos, Proposals)
    \/ ExecuteProposal(FundsDaos, Proposals, {"a1"})
    \/ Tick

SpecPeriod == InitPeriod /\ [][NextPeriod]_vars

\* Quorum changes: one DAO, both proposal accounts, ConfigChange proposals
\* that set the quorum threshold to 0.
QuorumTypes ==
    { PType("ConfigChange", NoKey, 0, None, None, Some(0), None) }
InitQuorum == InitWith({"checked"})

NextQuorum ==
    \/ CreateDao(FundsInputs)
    \/ AddMember(FundsDaos, {1000})
    \/ CreateProposal(FundsDaos, Proposals, QuorumTypes, ProposeTimes)
    \/ CastVote(Proposals, {"Yes"})
    \/ QueueProposal(FundsDaos, Proposals)
    \/ ExecuteProposal(FundsDaos, Proposals, {"a1"})
    \/ Tick

SpecQuorum == InitQuorum /\ [][NextQuorum]_vars

\* ===== properties ==========================================================
Prop(p) == store.proposal[p]
OwnDao(p) == store.dao[store.proposal[p].dao]

\* C1: a proposal's status changes only along Active->Succeeded and
\* Active->Defeated (by queue_proposal), Succeeded->Executed (by
\* execute_proposal), Active->Cancelled and Succeeded->Cancelled (by
\* cancel_proposal); a Defeated, Executed or Cancelled proposal never changes
\* status again, and a proposal account is never removed.
EdgeOp(from, to) ==
    IF from = "Active" /\ to \in {"Succeeded", "Defeated"} THEN "queue_proposal"
    ELSE IF from = "Succeeded" /\ to = "Executed" THEN "execute_proposal"
    ELSE IF from \in {"Active", "Succeeded"} /\ to = "Cancelled" THEN "cancel_proposal"
    ELSE "none"
C1_StatusEdges ==
    [][\A p \in Proposals :
          Prop(p).exists =>
             /\ store'.proposal[p].exists
             /\ store'.proposal[p].status # Prop(p).status =>
                   /\ last'.op = EdgeOp(Prop(p).status, store'.proposal[p].status)
                   /\ last'.p = p]_vars
C1_Witness ==
    \E p \in Proposals :
        /\ Prop(p).exists
        /\ Prop(p).status = "Cancelled"
        /\ Prop(p).queued_at.some

\* C2: the action of a proposal is dispatched at most once, exactly once for
\* an Executed proposal, and every execute_proposal on an Executed proposal
\* fails ProposalNotQueued and commits nothing.
C2_ExecutedOnce ==
    \A p \in Proposals :
        /\ applied[p] <= 1
        /\ applied[p] = 1 <=> (Prop(p).exists /\ Prop(p).status = "Executed")
        /\ (Prop(p).exists /\ Prop(p).status = "Executed") =>
              \A d \in Daos, from \in Accts, to \in Accts :
                  LET res == Balanced(store,
                                 execute_proposal(store, d, p, from, to, now, build)) IN
                  /\ store.dao[d].exists => res.err = "ProposalNotQueued"
                  /\ Commit(store, res) = store
C2_Witness ==
    \E p \in Proposals :
        /\ Prop(p).exists
        /\ Prop(p).status = "Executed"
        /\ Prop(p).proposal_type.tag = "ConfigChange"
        /\ now > Prop(p).executed_at.v

\* C4: once a Vote record exists for (proposal, voter) it is never replaced,
\* and every further cast_vote for the pair fails at the record's `init`
\* (account already in use) and leaves the tallies as they are.
C4_NoSecondVote ==
    [][\A p \in Proposals, w \in Wallets :
          store.vote[VotePda(p, w)].exists =>
             /\ store'.vote[VotePda(p, w)] = store.vote[VotePda(p, w)]
             /\ \A k \in VoteTypes :
                   LET res == cast_vote(store, p, w, k, now) IN
                   /\ res.err = "AccountAlreadyInUse"
                   /\ Commit(store, res).proposal[p] = Prop(p)]_vars
C4_Witness ==
    \E p \in Proposals, w \in Wallets :
        /\ store.vote[VotePda(p, w)].exists
        /\ Prop(p).status = "Active"
        /\ now <= Prop(p).end_time
        /\ Prop(p).total_votes = store.vote[VotePda(p, w)].voting_power

\* C3: execute_proposal succeeds on a Succeeded proposal only once the clock
\* has reached queued_at + the timelock_delay of the proposal's DAO, and then
\* sets status Executed and executed_at = now; no proposal is executed earlier.
C3_TimelockRespected ==
    [][\A p \in Proposals :
          (/\ last'.op = "execute_proposal"
           /\ last'.p = p
           /\ Prop(p).status = "Succeeded"
           /\ store'.proposal[p].status = "Executed")
          => /\ now >= Prop(p).queued_at.v + OwnDao(p).timelock_delay
             /\ store'.proposal[p].executed_at = Some(now)]_vars

\* C5: queue_proposal decides on the proposal's own DAO: it changes the status
\* only when floor(total*10000 / (total_members*1000)) reaches the DAO's
\* quorum_threshold, to Succeeded with queued_at = now when
\* floor(yes*10000 / total) reaches the DAO's approval_threshold and to
\* Defeated with queued_at absent otherwise.
OwnParticipation(p) ==
    ParticipationRate(Prop(p).total_votes, OwnDao(p).total_members * PowerPerMember)
OwnApproval(p) == ApprovalRate(Prop(p).yes_votes, Prop(p).total_votes)
C5_TallyOnOwnDao ==
    [][\A p \in Proposals :
          (/\ last'.op = "queue_proposal"
           /\ last'.p = p
           /\ Prop(p).status = "Active"
           /\ store'.proposal[p].status # "Active")
          => /\ OwnParticipation(p) >= OwnDao(p).quorum_threshold
             /\ IF OwnApproval(p) >= OwnDao(p).approval_threshold
                THEN /\ store'.proposal[p].status = "Succeeded"
                     /\ store'.proposal[p].queued_at = Some(now)
                ELSE /\ store'.proposal[p].status = "Defeated"
                     /\ store'.proposal[p].queued_at = None]_vars

\* C6: from a state where an Active proposal is past its end_time and its
\* participation is below its DAO's quorum_threshold, no queue_proposal
\* changes the proposal: it stays Active with queued_at absent and the same
\* tallies.
C6_BelowQuorumStaysActive ==
    [][\A p \in Proposals :
          (/\ Prop(p).exists
           /\ Prop(p).status = "Active"
           /\ now > Prop(p).end_time
           /\ OwnParticipation(p) < OwnDao(p).quorum_threshold
           /\ last'.op = "queue_proposal"
           /\ last'.p = p)
          => store'.proposal[p] = Prop(p)]_vars

\* C7: every DAO has 0 < quorum_threshold <= 10000 and
\* 0 < approval_threshold <= 10000 in every reachable state.
C7_ThresholdsInRange ==
    \A d \in Daos :
        store.dao[d].exists =>
            /\ ValidBp(store.dao[d].quorum_threshold)
            /\ ValidBp(store.dao[d].approval_threshold)

\* C10: cancel_proposal cancels a proposal only for a canceller who is the
\* proposal's proposer or the authority of the proposal's own DAO.
C10_CancelByProposerOrOwnAuthority ==
    [][\A p \in Proposals :
          (/\ last'.op = "cancel_proposal"
           /\ last'.p = p
           /\ Prop(p).status # "Cancelled"
           /\ store'.proposal[p].status = "Cancelled")
          => last'.w \in {Prop(p).proposer, OwnDao(p).authority}]_vars

\* C8: every instruction is all-or-nothing: in every reachable state, a call
\* of any of the nine instructions that returns an error leaves every DAO,
\* member, proposal, vote and delegation record and every balance as before.
Atomic(r) == r.err # "Ok" => Commit(store, r) = store
C9_NoTransferWithoutFunds ==
    [][\A p \in Proposals :
          (/\ last'.op = "execute_proposal"
           /\ last'.p = p
           /\ Prop(p).status = "Succeeded"
           /\ Prop(p).proposal_type.tag = "Transfer"
           /\ store.lamports[OwnDao(p).treasury] < Prop(p).proposal_type.amount)
          => /\ store'.proposal[p] = Prop(p)
             /\ store'.lamports = store.lamports]_vars

\* C11: add_member commits only for a signer that is the stored authority of
\* the DAO it adds to: total_members of a DAO changes, and a member record of
\* the DAO is created, only in an add_member on that DAO signed by the DAO's
\* authority.
C11_AddMemberByAuthority ==
    [][\A d \in Daos :
          (\/ store'.dao[d].total_members # store.dao[d].total_members
           \/ \E w \in Wallets :
                 /\ store'.member[MemberPda(d, w)].exists
                 /\ ~store.member[MemberPda(d, w)].exists)
          => /\ last'.op = "add_member"
             /\ last'.d = d
             /\ last'.w = store.dao[d].authority]_vars

\* C12: the delegate of a member record changes only in a delegate_vote or
\* revoke_delegation signed by that member's own wallet.
C12_DelegateByOwner ==
    [][\A m \in Daos \X Wallets :
          store'.member[m].delegate # store.member[m].delegate
          => /\ last'.op \in {"delegate_vote", "revoke_delegation"}
             /\ last'.m = m
             /\ (store.member[m].exists => last'.w = store.member[m].wallet)]_vars

\* C13 (as stated): for a voter who holds a member record of the proposal's
\* DAO and no vote record for the proposal, cast_vote fails ProposalNotActive
\* whenever the status is not Active, and fails VotingPeriodEnded whenever
\* now > end_time.
C13_ErrorsAsStated ==
    \A p \in Proposals, w \in Wallets, k \in VoteTypes :
        (/\ Prop(p).exists
         /\ store.member[MemberPda(Prop(p).dao, w)].exists
         /\ ~store.vote[VotePda(p, w)].exists) =>
            LET res == cast_vote(store, p, w, k, now) IN
            /\ Prop(p).status # "Active" => res.err = "ProposalNotActive"
            /\ now > Prop(p).end_time => res.err = "VotingPeriodEnded"

\* C13: a cast_vote on a proposal that is not Active, or after its end_time,
\* always fails and commits nothing; for a voter who holds a member record of
\* the proposal's DAO and no vote record for the proposal the error is
\* ProposalNotActive when the status is not Active and VotingPeriodEnded when
\* the status is Active and now > end_time; such a voter, active and with
\* positive power, is accepted on an Active proposal up to and including
\* now = end_time; and cast_vote accepts nobody but a wallet whose member
\* record belongs to the proposal's own DAO.
Eligible(p, w) ==
    /\ store.member[MemberPda(Prop(p).dao, w)].exists
    /\ ~store.vote[VotePda(p, w)].exists
C13_VoteWindow ==
    \A p \in Proposals, w \in Wallets, k \in VoteTypes :
        Prop(p).exists =>
            LET res == cast_vote(store, p, w, k, now)
                member == store.member[MemberPda(Prop(p).dao, w)] IN
            /\ (Prop(p).status # "Active" \/ now > Prop(p).end_time)
                  => res.err # "Ok" /\ Commit(store, res) = store
            /\ (Eligible(p, w) /\ Prop(p).status # "Active")
                  => res.err = "ProposalNotActive"
            /\ (Eligible(p, w) /\ Prop(p).status = "Active" /\ now > Prop(p).end_time)
                  => res.err = "VotingPeriodEnded"
            /\ (/\ Eligible(p, w)
                /\ Prop(p).status = "Active"
                /\ now <= Prop(p).end_time
                /\ member.is_active
                /\ member.voting_power > 0)
                  => res.err = "Ok"
            /\ res.err = "Ok"
                  => /\ member.exists
                     /\ member.dao = Prop(p).dao
                     /\ member.wallet = w
C13_Witness ==
    \E p \in Proposals, w \in Wallets, x \in Wallets :
        /\ store.vote[VotePda(p, w)].exists
        /\ store.vote[VotePda(p, w)].voted_at = Prop(p).end_time
        /\ Prop(p).status = "Succeeded"
        /\ now > Prop(p).end_time
        /\ cast_vote(store, p, x, "Yes", now).err = "ProposalNotActive"

\* C14: a cast_vote that commits with kind k for a voter of power p creates
\* the vote record (proposal, voter, k, p, now), adds p to the tally of k and
\* to total_votes, and changes nothing else: not the other two tallies, the
\* status or the timestamps of the proposal, nor any member, DAO, other
\* proposal, other vote record, delegation or balance.
C14_VoteFrame ==
    [][(last'.op = "cast_vote" /\ store' # store) =>
          LET p == last'.p
              w == last'.w
              power == store.member[MemberPda(Prop(p).dao, w)].voting_power IN
          \E k \in VoteTypes :
              /\ store' = [store EXCEPT
                    !.vote[VotePda(p, w)] =
                        [exists |-> TRUE, proposal |-> p, voter |-> w,
                         vote_type |-> k, voting_power |-> power,
                         voted_at |-> now],
                    !.proposal[p] =
                        IF k = "Yes" THEN
                            [@ EXCEPT !.yes_votes = @ + power,
                                      !.total_votes = @ + power]
                        ELSE IF k = "No" THEN
                            [@ EXCEPT !.no_votes = @ + power,
                                      !.total_votes = @ + power]
                        ELSE
                            [@ EXCEPT !.abstain_votes = @ + power,
                                      !.total_votes = @ + power]]
              /\ ~store.vote[VotePda(p, w)].exists
              /\ power > 0]_vars
C14_Witness ==
    \E p \in Proposals, w \in Wallets :
        /\ last.op = "cast_vote"
        /\ last.p = p
        /\ last.w = w
        /\ store.vote[VotePda(p, w)].vote_type = "Abstain"
        /\ store.vote[VotePda(p, w)].voted_at = now
        /\ Prop(p).abstain_votes = store.vote[VotePda(p, w)].voting_power
        /\ Prop(p).no_votes > 0
        /\ Prop(p).total_votes = Prop(p).abstain_votes + Prop(p).no_votes

\* C15: the power a vote is credited with is the voter's own voting_power at
\* the time of the vote, whatever the delegate fields say: the outcome of
\* cast_vote is the same for every value of the voter's delegate, a vote of a
\* delegatee carries the delegatee's own power only, and a delegate_vote or
\* revoke_delegation changes no proposal and no outcome of queue_proposal.
WithDelegate(st, m, x) == [st EXCEPT !.member[m].delegate = x]
C16_ErrorsAsStated ==
    \A p \in Proposals, d \in Daos :
        (Prop(p).exists /\ store.dao[d].exists) =>
            LET res == queue_proposal(store, d, p, now) IN
            /\ Prop(p).status # "Active" => res.err = "ProposalNotActive"
            /\ now <= Prop(p).end_time => res.err = "VotingPeriodNotEnded"

\* C16: queue_proposal fails ProposalNotActive whenever the status is not
\* Active, and fails VotingPeriodNotEnded whenever the status is Active and
\* now <= end_time (now = end_time included); neither call changes anything;
\* a Succeeded proposal was queued after its end_time and a Defeated proposal
\* is seen only after its end_time.
C16_QueueWindow ==
    \A p \in Proposals :
        Prop(p).exists =>
            /\ \A d \in Daos :
                  store.dao[d].exists =>
                     LET res == queue_proposal(store, d, p, now) IN
                     /\ Prop(p).status # "Active"
                           => /\ res.err = "ProposalNotActive"
                              /\ Commit(store, res) = store
                     /\ (Prop(p).status = "Active" /\ now <= Prop(p).end_time)
                           => /\ res.err = "VotingPeriodNotEnded"
                              /\ Commit(store, res) = store
            /\ Prop(p).status \in {"Succeeded", "Defeated"}
                  => now > Prop(p).end_time
            /\ Prop(p).queued_at.some
                  => Prop(p).queued_at.v > Prop(p).end_time
C16_Witness ==
    \E p \in Proposals, d \in Daos :
        /\ Prop(p).exists
        /\ store.dao[d].exists
        /\ Prop(p).status = "Active"
        /\ now = Prop(p).end_time
        /\ Prop(p).yes_votes = OwnDao(p).total_members * PowerPerMember
        /\ queue_proposal(store, d, p, now).err = "VotingPeriodNotEnded"

\* C17: a create_proposal that commits on DAO d writes the new proposal with
\* id = total_proposals of d as it was before, start_time = now,
\* end_time = now + voting_period of d, status Active, all tallies 0 and no
\* queued_at, executed_at or cancelled_at, and raises total_proposals of d by
\* exactly 1; the new id is greater than the id of every earlier proposal of
\* d; in every state the ids of the proposals of one DAO are pairwise distinct
\* and total_proposals of a DAO is the number of its proposals.
ProposalsOf(st, d) == {p \in Proposals : st.proposal[p].exists /\ st.proposal[p].dao = d}
IdsConsistent(st) ==
    \A d \in Daos :
        /\ st.dao[d].total_proposals = Cardinality(ProposalsOf(st, d))
        /\ \A p \in ProposalsOf(st, d), q \in ProposalsOf(st, d) :
              p # q => st.proposal[p].id # st.proposal[q].id
C17_ProposalIds ==
    [][/\ IdsConsistent(store)
       /\ IdsConsistent(store')
       /\ (last'.op = "create_proposal" /\ store' # store) =>
             LET d == last'.d
                 p == last'.p IN
             /\ ~Prop(p).exists
             /\ \E t \in PlainTypes :
                   store'.proposal[p] =
                       [exists |-> TRUE, id |-> store.dao[d].total_proposals,
                        dao |-> d, proposer |-> last'.w, proposal_type |-> t,
                        yes_votes |-> 0, no_votes |-> 0, abstain_votes |-> 0,
                        total_votes |-> 0, start_time |-> now,
                        end_time |-> now + store.dao[d].voting_period,
                        queued_at |-> None, executed_at |-> None,
                        cancelled_at |-> None, status |-> "Active"]
             /\ store'.dao = [store.dao EXCEPT ![d].total_proposals = @ + 1]
             /\ \A q \in ProposalsOf(store, d) :
                   Prop(q).id < store'.proposal[p].id
             /\ \A q \in Proposals \ {p} : store'.proposal[q] = Prop(q)]_vars
C17_Witness ==
    /\ Prop("p1").exists
    /\ Prop("p2").exists
    /\ Prop("p1").dao = Prop("p2").dao
    /\ Prop("p1").id = 1
    /\ Prop("p2").id = 0
    /\ Prop("p1").start_time > Prop("p2").start_time
    /\ Prop("p1").end_time = Prop("p1").start_time + 2
    /\ OwnDao("p1").total_proposals = 2

\* Account contents no instruction produces: a deactivated DAO, a deactivated
\* member, a member without power.
DaoOff(st, d) == [st EXCEPT !.dao[d].is_active = FALSE]
MemberOff(st, m) == [st EXCEPT !.member[m].is_active = FALSE]
MemberPowerless(st, m) == [st EXCEPT !.member[m].voting_power = 0]
Rejects(st, res, err) == res.err = err /\ Commit(st, res) = st

\* C18: for a proposer holding a member record of the DAO and a free proposal
\* account, create_proposal fails DAONotActive on a deactivated DAO,
\* MemberNotActive on a deactivated member record and
\* InsufficientVotingPower on a member record of power 0, each time creating
\* no proposal and leaving total_proposals as it is; and create_proposal
\* succeeds only for a proposer whose member record belongs to the DAO the
\* proposal is created in.
C18_ProposerGuards ==
    \A d \in Daos, p \in Proposals, w \in Wallets, t \in PlainTypes :
        LET m == MemberPda(d, w)
            res == create_proposal(store, d, p, w, t, now) IN
        /\ (store.dao[d].exists /\ store.member[m].exists /\ ~Prop(p).exists)
              => /\ Rejects(DaoOff(store, d),
                            create_proposal(DaoOff(store, d), d, p, w, t, now),
                            "DAONotActive")
                 /\ Rejects(MemberOff(store, m),
                            create_proposal(MemberOff(store, m), d, p, w, t, now),
                            "MemberNotActive")
                 /\ Rejects(MemberPowerless(store, m),
                            create_proposal(MemberPowerless(store, m), d, p, w, t, now),
                            "InsufficientVotingPower")
                 /\ res.err = "Ok"
        /\ res.err = "Ok"
              => /\ store.member[m].exists
                 /\ store.member[m].dao = d
                 /\ store.member[m].wallet = w
        /\ res.err # "Ok" => Commit(store, res) = store
C18_Witness ==
    \E d \in Daos, w \in Wallets, x \in Wallets :
        /\ last.op = "create_proposal"
        /\ last.d = d
        /\ last.w = w
        /\ ~Prop("p2").exists
        /\ store.dao[d].total_proposals = 1
        /\ create_proposal(store, d, "p2", x, CHOOSE t \in PlainTypes : TRUE, now).err
              = "AccountNotInitialized"
        /\ create_proposal(MemberPowerless(store, MemberPda(d, w)), d, "p2", w,
                           CHOOSE t \in PlainTypes : TRUE, now).err
              = "InsufficientVotingPower"

\* C19: on a free DAO account, create_dao fails with one of
\* InvalidVotingPeriod, InvalidTimelock, InvalidQuorum, InvalidThreshold and
\* creates nothing when voting_period <= 0, timelock_delay < 0, or a threshold
\* is 0 or above 10000; with every other argument it creates the DAO with
\* exactly the given parameters, authority = the signer, the given treasury,
\* total_members = 0, total_proposals = 0 and is_active = TRUE, and touches
\* nothing else; quorum 10000, approval 10000 and timelock 0 are accepted.
InvalidParameterErrors ==
    {"InvalidVotingPeriod", "InvalidTimelock", "InvalidQuorum", "InvalidThreshold"}
PeriodArgs == {-1, 0, 1}
TimelockArgs == {-1, 0}
ThresholdArgs == {0, 10000, 10001}
C19_CreateDaoGuards ==
    \A d \in Daos, w \in Wallets, a \in Accts, vp \in PeriodArgs,
       td \in TimelockArgs, q \in ThresholdArgs, ap \in ThresholdArgs :
        LET res == create_dao(store, d, w, a, vp, td, q, ap, now) IN
        IF store.dao[d].exists
        THEN res.err # "Ok" /\ Commit(store, res) = store
        ELSE IF vp <= 0 \/ td < 0 \/ q = 0 \/ q > 10000 \/ ap = 0 \/ ap > 10000
        THEN /\ res.err \in InvalidParameterErrors
             /\ Commit(store, res) = store
        ELSE /\ res.err = "Ok"
             /\ Commit(store, res) = [store EXCEPT !.dao[d] =
                    [exists |-> TRUE, authority |-> w, treasury |-> a,
                     total_members |-> 0, total_proposals |-> 0,
                     voting_period |-> vp, timelock_delay |-> td,
                     quorum_threshold |-> q, approval_threshold |-> ap,
                     is_active |-> TRUE, created_at |-> now]]
C19_Witness ==
    /\ last.op = "create_dao"
    /\ last.d = "d2"
    /\ store.dao["d2"] =
          [exists |-> TRUE, authority |-> last.w, treasury |-> last.from,
           total_members |-> 0, total_proposals |-> 0,
           voting_period |-> 2, timelock_delay |-> 0,
           quorum_threshold |-> 10000, approval_threshold |-> 10000,
           is_active |-> TRUE, created_at |-> now]
    /\ ~store.dao["d1"].exists
    /\ create_dao(store, "d1", "w1", "a1", 1, 0, 10001, 10000, now).err
          = "InvalidQuorum"
    /\ create_dao(store, "d1", "w1", "a1", 0, 0, 10000, 10000, now).err
          = "InvalidVotingPeriod"

\* C20: on an existing DAO, add_member for a wallet that already has a member
\* record of the DAO fails at the record's `init` (account already in use);
\* for a new wallet it fails DAONotActive on a deactivated DAO and
\* InvalidVotingPower with voting_power = 0, and otherwise creates the active
\* member record with the given power and no delegate and raises
\* total_members by exactly 1; a failing call changes nothing; in every state
\* total_members of a DAO is the number of member records of the DAO.
MembersOf(st, d) == {w \in Wallets : st.member[MemberPda(d, w)].exists}
C20_MemberCount ==
    \A d \in Daos :
        /\ store.dao[d].total_members = Cardinality(MembersOf(store, d))
        /\ store.dao[d].exists =>
              \A a \in Wallets, w \in Wallets, v \in PowerInputs :
                  LET m == MemberPda(d, w)
                      res == add_member(store, d, a, w, v, now) IN
                  IF store.member[m].exists
                  THEN Rejects(store, res, "AccountAlreadyInUse")
                  ELSE /\ Rejects(DaoOff(store, d),
                                  add_member(DaoOff(store, d), d, a, w, v, now),
                                  "DAONotActive")
                       /\ IF v = 0
                          THEN Rejects(store, res, "InvalidVotingPower")
                          ELSE /\ res.err = "Ok"
                               /\ Commit(store, res) = [store EXCEPT
                                     !.member[m] =
                                         [exists |-> TRUE, dao |-> d, wallet |-> w,
                                          voting_power |-> v, delegate |-> NoKey,
                                          proposals_created |-> 0,
                                          votes_cast |-> 0, joined_at |-> now,
                                          is_active |-> TRUE],
                                     !.dao[d].total_members = @ + 1]
C20_Witness ==
    \E d \in Daos, w \in Wallets :
        /\ last.op = "add_member"
        /\ last.d = d
        /\ last.m = MemberPda(d, w)
        /\ store.dao[d].total_members = 2
        /\ store.member[MemberPda(d, w)].voting_power = 1000
        /\ add_member(store, d, store.dao[d].authority, w, 1000, now).err
              = "AccountAlreadyInUse"

\* C21: a delegate_vote that commits sets the delegate of the member record
\* to a wallet that holds a member record in the same DAO as that record, and
\* creates a delegation record whose delegated_power is the voting_power of
\* the member record.
C21_DelegateeInSameDao ==
    [][\A m \in Daos \X Wallets :
          (/\ last'.op = "delegate_vote"
           /\ last'.m = m
           /\ store' # store)
          => /\ store'.member[m].delegate \in Wallets
             /\ store.member[MemberPda(store.member[m].dao,
                                       store'.member[m].delegate)].exists
             /\ \E g \in Delegations :
                   /\ ~store.delegation[g].exists
                   /\ store'.delegation[g].exists
                   /\ store'.delegation[g].delegated_power
                         = store.member[m].voting_power]_vars

\* C22: on an existing member record, revoke_delegation fails
\* NoDelegationToRevoke and changes nothing when the delegate is absent;
\* otherwise it clears the delegate and changes nothing else, every delegation
\* record included; a revoke_delegation right after it fails
\* NoDelegationToRevoke; and a revoke_delegation right after a delegate_vote
\* on the record succeeds and leaves the delegate absent and the delegation
\* record that delegate_vote created in place.
C22_RevokeClears ==
    \A m \in Daos \X Wallets, w \in Wallets :
        store.member[m].exists =>
            LET res == revoke_delegation(store, m, w) IN
            /\ IF store.member[m].delegate = NoKey
               THEN Rejects(store, res, "NoDelegationToRevoke")
               ELSE /\ res.err = "Ok"
                    /\ res.st = [store EXCEPT !.member[m].delegate = NoKey]
                    /\ \A x \in Wallets :
                          Rejects(res.st, revoke_delegation(res.st, m, x),
                                  "NoDelegationToRevoke")
            /\ \A d \in Daos, g \in Delegations, x \in Wallets :
                  LET dv == delegate_vote(store, d, m, g, w, x, now)
                      rv == revoke_delegation(dv.st, m, w) IN
                  dv.err = "Ok" =>
                     /\ dv.st.member[m].delegate = x
                     /\ rv.err = "Ok"
                     /\ rv.st.member[m].delegate = NoKey
                     /\ rv.st.delegation = dv.st.delegation
                     /\ rv.st.delegation[g].exists
C22_Witness ==
    \E m \in Daos \X Wallets, g \in Delegations :
        /\ last.op = "revoke_delegation"
        /\ last.m = m
        /\ store.member[m].exists
        /\ store.member[m].delegate = NoKey
        /\ store.delegation[g].exists
        /\ store.delegation[g].delegated_power = store.member[m].voting_power
        /\ revoke_delegation(store, m, last.w).err = "NoDelegationToRevoke"

\* C23: an execute_proposal that commits on a ConfigChange proposal sets each
\* of voting_period, timelock_delay, quorum_threshold and approval_threshold
\* of the proposal's DAO to the value in the action when the action carries
\* one, and leaves the other fields of that DAO, and every other DAO, as they
\* are.
C23_ConfigAppliedToOwnDao ==
    [][\A p \in Proposals :
          (/\ last'.op = "execute_proposal"
           /\ last'.p = p
           /\ Prop(p).status = "Succeeded"
           /\ store'.proposal[p].status = "Executed"
           /\ Prop(p).proposal_type.tag = "ConfigChange")
          => LET t == Prop(p).proposal_type
                 own == Prop(p).dao IN
             store'.dao = [store.dao EXCEPT
                 ![own].voting_period =
                     IF t.voting_period.some THEN t.voting_period.v ELSE @,
                 ![own].timelock_delay =
                     IF t.timelock_delay.some THEN t.timelock_delay.v ELSE @,
                 ![own].quorum_threshold =
                     IF t.quorum_threshold.some THEN t.quorum_threshold.v ELSE @,
                 ![own].approval_threshold =
                     IF t.approval_threshold.some THEN t.approval_threshold.v
                     ELSE @]]_vars

\* C24: an execute_proposal that commits on a Transfer{recipient, amount}
\* proposal debits the treasury of the proposal's DAO by amount, credits the
\* recipient named in the action by amount, and changes no other balance.
C24_TransferOwnTreasuryToRecipient ==
    [][\A p \in Proposals :
          (/\ last'.op = "execute_proposal"
           /\ last'.p = p
           /\ Prop(p).status = "Succeeded"
           /\ store'.proposal[p].status = "Executed"
           /\ Prop(p).proposal_type.tag = "Transfer")
          => LET t == Prop(p).proposal_type IN
             /\ last'.from = OwnDao(p).treasury
             /\ last'.to = t.recipient
             /\ store'.lamports =
                   [store.lamports EXCEPT ![OwnDao(p).treasury] = @ - t.amount,
                                          ![t.recipient] = @ + t.amount]]_vars

RemovedStillActs ==
    \A p \in Proposals :
        (/\ Prop(p).exists
         /\ Prop(p).status = "Executed"
         /\ Prop(p).proposal_type.tag = "RemoveMember"
         /\ store.member[MemberPda(Prop(p).dao, Prop(p).proposal_type.recipient)].exists)
        => LET d == Prop(p).dao
               w == Prop(p).proposal_type.recipient
               made == create_proposal(store, d, "p2", w,
                                       Prop(p).proposal_type, now) IN
           /\ store.member[MemberPda(d, w)].is_active
           /\ store.member[MemberPda(d, w)].voting_power = 1000
           /\ store.dao[d].total_members = Cardinality(MembersOf(store, d))
           /\ made.err = "Ok"
           /\ \A k \in VoteTypes : cast_vote(made.st, "p2", w, k, now).err = "Ok"

\* C25: an execute_proposal that commits on an AddMember, RemoveMember or
\* Custom proposal changes only that proposal's status (to Executed) and
\* executed_at (to the clock): every DAO, member record, vote, delegation and
\* balance stays as it is.  In every state in which a RemoveMember proposal
\* is Executed, the member it names still holds its record and power, can
\* still create a proposal, and can vote on it.
C25_LogOnly ==
    /\ [][\A p \in Proposals :
            (/\ last'.op = "execute_proposal"
             /\ last'.p = p
             /\ Prop(p).status = "Succeeded"
             /\ store'.proposal[p].status = "Executed"
             /\ Prop(p).proposal_type.tag \in {"AddMember", "RemoveMember", "Custom"})
            => store' = [store EXCEPT !.proposal[p].status = "Executed",
                                      !.proposal[p].executed_at = Some(now)]]_vars
    /\ []RemovedStillActs
C25_Witness ==
    \E p \in Proposals :
        /\ last.op = "execute_proposal"
        /\ last.p = p
        /\ Prop(p).status = "Executed"
        /\ Prop(p).executed_at = Some(now)
        /\ Prop(p).proposal_type.tag = "RemoveMember"
        /\ store.member[MemberPda(Prop(p).dao, Prop(p).proposal_type.recipient)].exists
        /\ store.vote[VotePda(p, Prop(p).proposal_type.recipient)].exists

\* A call that fails, made again on the state the failure left behind, fails
\* with the same error and leaves that state as it is.
FailsAgain(F(_)) ==
    LET first == F(store)
        left == Commit(store, first)
        second == F(left) IN
    first.err # "Ok" =>
        /\ second.err = first.err
        /\ Commit(left, second) = left
        /\ left = store

RejectionsRepeat ==
    /\ \A i \in FundsInputs :
          FailsAgain(LAMBDA st : create_dao(st, i.d, i.authority, i.treasury,
                                            i.vp, i.td, i.q, i.a, now))
    /\ \A d \in FundsDaos, a \in Wallets, w \in Wallets, v \in PowerInputs :
          FailsAgain(LAMBDA st : add_member(st, d, a, w, v, now))
    /\ \A d \in FundsDaos, p \in FundsProposals, w \in Wallets, t \in TransferTypes :
          FailsAgain(LAMBDA st : create_proposal(st, d, p, w, t, now))
    /\ \A p \in FundsProposals, w \in Wallets, k \in VoteTypes :
          FailsAgain(LAMBDA st : cast_vote(st, p, w, k, now))
    /\ \A d \in FundsDaos, p \in FundsProposals :
          FailsAgain(LAMBDA st : queue_proposal(st, d, p, now))
    /\ \A d \in FundsDaos, p \in FundsProposals, from \in Accts, to \in Accts :
          FailsAgain(LAMBDA st :
              Balanced(st, execute_proposal(st, d, p, from, to, now, build)))
    /\ \A d \in FundsDaos, p \in FundsProposals, w \in Wallets :
          FailsAgain(LAMBDA st : cancel_proposal(st, d, p, w, now))
    /\ \A d \in FundsDaos, m \in FundsDaos \X Wallets, g \in FundsDelegations,
          w \in Wallets, x \in Wallets :
          FailsAgain(LAMBDA st : delegate_vote(st, d, m, g, w, x, now))
    /\ \A m \in FundsDaos \X Wallets, w \in Wallets :
          FailsAgain(LAMBDA st : revoke_delegation(st, m, w))

Params(dao) ==
    <<dao.voting_period, dao.timelock_delay,
      dao.quorum_threshold, dao.approval_threshold>>

\* C27: once a DAO exists, a step changes its voting_period, timelock_delay,
\* quorum_threshold or approval_threshold only if it is an execute_proposal
\* that takes a Succeeded ConfigChange proposal of that same DAO to Executed.
C27_ParamsOnlyByOwnConfigChange ==
    [][\A d \in Daos :
          (store.dao[d].exists /\ Params(store'.dao[d]) # Params(store.dao[d]))
          => /\ last'.op = "execute_proposal"
             /\ Prop(last'.p).status = "Succeeded"
             /\ store'.proposal[last'.p].status = "Executed"
             /\ Prop(last'.p).proposal_type.tag = "ConfigChange"
             /\ Prop(last'.p).dao = d]_vars

\* C28: every DAO has voting_period > 0 and timelock_delay >= 0, in every
\* reachable state.
C28_PeriodAndTimelockInRange ==
    \A d \in Daos :
        store.dao[d].exists =>
            /\ store.dao[d].voting_period > 0
            /\ store.dao[d].timelock_delay >= 0

Tallies(proposal) ==
    <<proposal.yes_votes, proposal.no_votes,
      proposal.abstain_votes, proposal.total_votes>>

\* C29: a step that creates a proposal leaves its yes, no, abstain and total
\* tallies at 0, and no step removes a proposal or lowers any of its four
\* tallies.
C29_TalliesMonotone ==
    [][\A p \in Proposals :
          /\ (~Prop(p).exists /\ store'.proposal[p].exists)
                => Tallies(store'.proposal[p]) = <<0, 0, 0, 0>>
          /\ Prop(p).exists
                => /\ store'.proposal[p].exists
                   /\ \A i \in 1..4 :
                         Tallies(store'.proposal[p])[i] >= Tallies(Prop(p))[i]]_vars
C29_Witness ==
    \E p \in Proposals :
        /\ last.op = "queue_proposal"
        /\ Prop(p).status = "Defeated"
        /\ Prop(p).yes_votes > 0
        /\ Prop(p).no_votes >= Prop(p).yes_votes
        /\ Prop(p).total_votes = Prop(p).yes_votes + Prop(p).no_votes

\* C30: once the vote record of (proposal, voter) exists, no step changes its
\* vote kind, credited power or timestamp, or removes it, whatever the step
\* is: a delegation or revocation by the voter, another vote, or the queueing,
\* execution or cancellation of the proposal.  The record always names its
\* proposal and voter and carries a timestamp inside the voting window.
C30_VoteRecordFrozen ==
    /\ [][\A p \in Proposals, w \in Wallets :
            store.vote[VotePda(p, w)].exists
               => /\ store'.vote[VotePda(p, w)].exists
                  /\ store'.vote[VotePda(p, w)].vote_type
                        = store.vote[VotePda(p, w)].vote_type
                  /\ store'.vote[VotePda(p, w)].voting_power
                        = store.vote[VotePda(p, w)].voting_power
                  /\ store'.vote[VotePda(p, w)].voted_at
                        = store.vote[VotePda(p, w)].voted_at]_vars
    /\ [](\A p \in Proposals, w \in Wallets :
            store.vote[VotePda(p, w)].exists
               => /\ store.vote[VotePda(p, w)].proposal = p
                  /\ store.vote[VotePda(p, w)].voter = w
                  /\ store.vote[VotePda(p, w)].voting_power > 0
                  /\ store.vote[VotePda(p, w)].voted_at >= Prop(p).start_time
                  /\ store.vote[VotePda(p, w)].voted_at <= Prop(p).end_time
                  /\ store.vote[VotePda(p, w)].voted_at <= now)
C30_Witness ==
    \E p \in Proposals, w \in Wallets :
        /\ store.vote[VotePda(p, w)].exists
        /\ store.vote[VotePda(p, w)].voted_at < now
        /\ Prop(p).status = "Executed"
        /\ store.member[MemberPda(Prop(p).dao, w)].delegate # NoKey
        /\ last.op = "execute_proposal"

\* Power credited by the vote records of proposal p, by kind.
VotesOf(p, kinds) ==
    SumOver([w \in Wallets |->
                IF store.vote[VotePda(p, w)].exists
                   /\ store.vote[VotePda(p, w)].vote_type \in kinds
                THEN store.vote[VotePda(p, w)].voting_power ELSE 0], Wallets)

\* C31: for every proposal in every reachable state, total_votes =
\* yes_votes + no_votes + abstain_votes, and yes, no, abstain and total each
\* equal the power summed over the proposal's vote records of that kind (of
\* every kind, for total).
C31_TalliesMatchRecords ==
    \A p \in Proposals :
        Prop(p).exists =>
            /\ Prop(p).total_votes
                  = Prop(p).yes_votes + Prop(p).no_votes + Prop(p).abstain_votes
            /\ Prop(p).yes_votes = VotesOf(p, {"Yes"})
            /\ Prop(p).no_votes = VotesOf(p, {"No"})
            /\ Prop(p).abstain_votes = VotesOf(p, {"Abstain"})
            /\ Prop(p).total_votes = VotesOf(p, VoteTypes)
C31_Witness ==
    \E p \in Proposals :
        /\ Prop(p).exists
        /\ last.op = "cast_vote"
        /\ Prop(p).yes_votes = 3000
        /\ Prop(p).abstain_votes = 1000
        /\ Prop(p).total_votes = 4000
        /\ \A w \in Wallets : store.vote[VotePda(p, w)].exists

NoVoteAndQueueTogether ==
    \A p \in Proposals, d \in Daos, w \in Wallets, k \in VoteTypes :
        ~(/\ cast_vote(store, p, w, k, now).err = "Ok"
          /\ queue_proposal(store, d, p, now).err = "Ok")

\* C32: in no reachable state can a cast_vote and a queue_proposal on the
\* same proposal both succeed at the current clock value, whatever the voter,
\* kind and DAO account; and a step taken when the clock is past end_time or
\* the status is not Active leaves the four tallies of the proposal as they
\* are.
C32_WindowsDisjoint ==
    /\ []NoVoteAndQueueTogether
    /\ [][\A p \in Proposals :
            (Prop(p).exists /\ (now > Prop(p).end_time \/ Prop(p).status # "Active"))
               => Tallies(store'.proposal[p]) = Tallies(Prop(p))]_vars
C32_Witness ==
    \E p \in Proposals, d \in Daos :
        /\ Prop(p).exists
        /\ Prop(p).status = "Active"
        /\ Prop(p).total_votes > 0
        /\ now = Prop(p).end_time + 1
        /\ last.op = "tick"
        /\ queue_proposal(store, d, p, now).err = "Ok"
        /\ \E w \in Wallets :
              /\ ~store.vote[VotePda(p, w)].exists
              /\ store.member[MemberPda(Prop(p).dao, w)].exists
              /\ cast_vote(store, p, w, "Yes", now).err = "VotingPeriodEnded"

\* C33: in every reachable state and for every proposal: queued_at is absent
\* while the status is Active or Defeated and present while it is Succeeded
\* or Executed; executed_at is present exactly when the status is Executed;
\* cancelled_at is present exactly when the status is Cancelled; and where
\* they are present, end_time < queued_at, queued_at <= executed_at and
\* queued_at <= cancelled_at.
C33_TimestampsMatchStatus ==
    \A p \in Proposals :
        Prop(p).exists =>
            /\ Prop(p).status \in {"Active", "Defeated"} => ~Prop(p).queued_at.some
            /\ Prop(p).status \in {"Succeeded", "Executed"} => Prop(p).queued_at.some
            /\ Prop(p).executed_at.some <=> Prop(p).status = "Executed"
            /\ Prop(p).cancelled_at.some <=> Prop(p).status = "Cancelled"
            /\ Prop(p).queued_at.some => Prop(p).end_time < Prop(p).queued_at.v
            /\ Prop(p).executed_at.some
                  => Prop(p).queued_at.v <= Prop(p).executed_at.v
            /\ (Prop(p).cancelled_at.some /\ Prop(p).queued_at.some)
                  => Prop(p).queued_at.v <= Prop(p).cancelled_at.v
C33_Witness ==
    \E p \in Proposals :
        /\ last.op = "cancel_proposal"
        /\ last.p = p
        /\ Prop(p).status = "Cancelled"
        /\ Prop(p).queued_at.some
        /\ Prop(p).cancelled_at = Some(now)
        /\ Prop(p).queued_at.v < now

\* A ConfigChange proposal of the same DAO that carried a timelock_delay and
\* was executed after p was queued.
DelayChangedSince(p, q) ==
    /\ q # p
    /\ Prop(q).exists
    /\ Prop(q).dao = Prop(p).dao
    /\ Prop(q).status = "Executed"
    /\ Prop(q).proposal_type.tag = "ConfigChange"
    /\ Prop(q).proposal_type.timelock_delay.some
    /\ Prop(q).executed_at.v >= Prop(p).queued_at.v

\* C34: while a proposal p is Succeeded and a ConfigChange of its DAO that
\* set timelock_delay to a new value has been executed since p was queued,
\* execute_proposal on p succeeds exactly when the clock has reached
\* queued_at + the new delay, whichever DAO account is supplied.
C34_TimelockReadAtExecution ==
    \A p \in Proposals, q \in Proposals, d \in Daos :
        (/\ Prop(p).exists
         /\ Prop(p).status = "Succeeded"
         /\ store.dao[d].exists
         /\ DelayChangedSince(p, q))
        => (execute_proposal(store, d, p, "a1", "a1", now, build).err = "Ok"
               <=> now >= Prop(p).queued_at.v
                          + Prop(q).proposal_type.timelock_delay.v)

\* C35: no step changes the start_time or end_time of an existing proposal,
\* whatever the step does to the voting_period of its DAO; a step that
\* creates a proposal sets start_time to the clock and end_time to the clock
\* plus the voting_period its DAO holds at that moment.
C35_WindowFixedAtCreation ==
    [][\A p \in Proposals :
          /\ Prop(p).exists
                => /\ store'.proposal[p].start_time = Prop(p).start_time
                   /\ store'.proposal[p].end_time = Prop(p).end_time
          /\ (~Prop(p).exists /\ store'.proposal[p].exists)
                => /\ store'.proposal[p].start_time = now
                   /\ store'.proposal[p].end_time
                         = now + store.dao[store'.proposal[p].dao].voting_period]_vars
C35_Witness ==
    \E p \in Proposals, q \in Proposals :
        /\ Prop(p).exists /\ Prop(q).exists
        /\ Prop(p).dao = Prop(q).dao
        /\ Prop(p).status = "Executed"
        /\ Prop(p).end_time = Prop(p).start_time + 1
        /\ OwnDao(p).voting_period = 2
        /\ Prop(q).start_time >= Prop(p).executed_at.v
        /\ Prop(q).end_time = Prop(q).start_time + 2
        /\ last.op = "create_proposal"

\* C36: a proposal with total_votes = 0 is never taken to Succeeded or
\* Defeated: a step from a state where it is Active with no votes leaves it
\* neither Succeeded nor Defeated.
C36_NoVotesNoVerdict ==
    [][\A p \in Proposals :
          (/\ Prop(p).exists
           /\ Prop(p).status = "Active"
           /\ Prop(p).total_votes = 0)
          => store'.proposal[p].status \notin {"Succeeded", "Defeated"}]_vars

\* C37: in every reachable state, for every proposal and every DAO account
\* that can be supplied, a queue_proposal that gets as far as the
\* participation computation (the proposal is Active and past its end_time)
\* divides by total_members * 1000 >= 1000 and does not fail on a division by
\* zero.
C37_DenominatorPositive ==
    \A p \in Proposals, d \in Daos :
        (/\ Prop(p).exists
         /\ store.dao[d].exists
         /\ QueueStatusOk(Prop(p).status)
         /\ VotingEnded(now, Prop(p).end_time))
        => /\ store.dao[d].total_members * PowerPerMember >= PowerPerMember
           /\ queue_proposal(store, d, p, now).err # "PanicDivideByZero"

InactivityErrors ==
    {"DAONotActive", "MemberNotActive", "DelegateeNotActive",
     "InsufficientVotingPower"}

NothingInactive ==
    /\ \A d \in Daos : store.dao[d].exists => store.dao[d].is_active
    /\ \A m \in Daos \X Wallets :
          store.member[m].exists
             => store.member[m].is_active /\ store.member[m].voting_power > 0
    /\ \A d \in FundsDaos, p \in FundsProposals, w \in Wallets, t \in TransferTypes :
          create_proposal(store, d, p, w, t, now).err \notin InactivityErrors
    /\ \A p \in FundsProposals, w \in Wallets, k \in VoteTypes :
          cast_vote(store, p, w, k, now).err \notin InactivityErrors
    /\ \A d \in FundsDaos, a \in Wallets, w \in Wallets, v \in PowerInputs :
          add_member(store, d, a, w, v, now).err \notin InactivityErrors
    /\ \A d \in FundsDaos, m \in FundsDaos \X Wallets, g \in FundsDelegations,
          w \in Wallets, x \in Wallets :
          delegate_vote(store, d, m, g, w, x, now).err \notin InactivityErrors

\* C38: in every reachable state every DAO is active and every member is
\* active with voting_power > 0, and no create_proposal, cast_vote, add_member
\* or delegate_vote, with any accounts and arguments, fails with DAONotActive,
\* MemberNotActive, DelegateeNotActive or InsufficientVotingPower; no step
\* removes a DAO or member, clears an is_active flag or changes the
\* voting_power a member was added with.
C38_NothingDeactivated ==
    /\ []NothingInactive
    /\ [][/\ \A d \in Daos :
               store.dao[d].exists
                  => store'.dao[d].exists /\ store'.dao[d].is_active
          /\ \A m \in Daos \X Wallets :
               /\ store.member[m].exists
                     => /\ store'.member[m].exists
                        /\ store'.member[m].is_active
                        /\ store'.member[m].voting_power
                              = store.member[m].voting_power
               /\ (~store.member[m].exists /\ store'.member[m].exists)
                     => last'.op = "add_member"]_vars
C38_Witness ==
    \E p \in Proposals, w \in Wallets, x \in Wallets :
        /\ Prop(p).exists
        /\ Prop(p).status = "Executed"
        /\ last.op = "execute_proposal"
        /\ w # x
        /\ store.member[MemberPda(Prop(p).dao, w)].exists
        /\ store.member[MemberPda(Prop(p).dao, x)].exists
        /\ store.member[MemberPda(Prop(p).dao, w)].delegate = x
        /\ store.vote[VotePda(p, w)].exists
        /\ store.vote[VotePda(p, x)].exists
        /\ \A y \in Wallets :
              add_member(store, Prop(p).dao, y, "w1", 0, now).err
                 = "AccountAlreadyInUse"

\* The proposal is Active, past its end_time, and queue_proposal on its own
\* DAO fails QuorumNotReached.
StuckBelowQuorum(st, p, clk) ==
    /\ st.proposal[p].exists
    /\ st.proposal[p].status = "Active"
    /\ clk > st.proposal[p].end_time
    /\ queue_proposal(st, st.proposal[p].dao, p, clk).err = "QuorumNotReached"

\* C39: from a state where a proposal is past its end_time and
\* queue_proposal fails QuorumNotReached on it, every step that does not
\* lower the quorum_threshold of its DAO either leaves it Active and still
\* failing QuorumNotReached, or is a cancel_proposal by its proposer or the
\* authority of its DAO that sets it Cancelled.
C39_StuckUntilCancelled ==
    [][\A p \in Proposals :
          (/\ StuckBelowQuorum(store, p, now)
           /\ store'.dao[Prop(p).dao].quorum_threshold >= OwnDao(p).quorum_threshold)
          => \/ StuckBelowQuorum(store', p, now')
             \/ /\ store'.proposal[p].status = "Cancelled"
                /\ last'.op = "cancel_proposal"
                /\ last'.w \in {Prop(p).proposer, OwnDao(p).authority}]_vars

\* C40: in every reachable state every member record has proposals_created =
\* 0 and votes_cast = 0, however many proposals the member has created and
\* votes it has cast.
C40_CountersStayZero ==
    \A m \in Daos \X Wallets :
        store.member[m].exists
           => /\ store.member[m].proposals_created = 0
              /\ store.member[m].votes_cast = 0
C40_Witness ==
    \E p \in Proposals, w \in Wallets :
        /\ Prop(p).exists
        /\ Prop(p).proposer = w
        /\ last.op = "cast_vote"
        /\ last.w = w
        /\ store.vote[VotePda(p, w)].exists
        /\ store.member[MemberPda(Prop(p).dao, w)].exists
        /\ store.member[MemberPda(Prop(p).dao, w)].votes_cast = 0
        /\ store.member[MemberPda(Prop(p).dao, w)].proposals_created = 0
        /\ OwnDao(p).total_proposals = 1

====
